---------------------------- MODULE Spec2Model ----------------------------
(***************************************************************************)
(* RecursiveGitUpdate: the recursive folder scan, setup_cache and run()    *)
(* (recursivegitupdate/recursive_update.py) over a filesystem tree, the    *)
(* cache file (foldercandidatescache.py) and run_command (utils).          *)
(*                                                                         *)
(* A path is the sequence of entry names below the base path; the base     *)
(* path itself is the empty sequence.  The recursion of                    *)
(* __scan_for_folder_candidates_recursive is an explicit stack of frames,  *)
(* one step per guard of the function body and per iteration of its loop.  *)
(***************************************************************************)
EXTENDS Integers, Sequences, FiniteSets, TLC

VARIABLES
    dirs,       \* the paths that are directories
    files,      \* the paths that are regular files
    noread,     \* the directories whose entries cannot be listed
    pc,         \* "idle", "scan", "done" or "raised"
    stack,      \* the frames of the recursive scan, innermost last
    git,        \* candidates.git
    svn,        \* candidates.svn
    ignores,    \* candidates.ignores
    calls,      \* the roots the recursive scan was invoked on, in order
    cachefile,  \* the cache file: absent, unparseable, or a JSON object
    age,        \* time since the cache file was written, in TimeUnits
    out,        \* the last operation on the cache, its inputs and its outcome
    spc,        \* who drives the model: "direct" (a bare scan), "cache" (the
                \* cache on its own), "command" (run_command on its own),
                \* or the position of setup_cache:
                \* "idle", "scanning", "done", "raised"
    hist,       \* the outcomes of the setup_cache runs so far
    result,     \* the candidates the last setup_cache returned
    rn,         \* run(): its position, its arguments and its Results
    proc        \* run_command: its arguments and the process it started

cvars == <<cachefile, age, out, spc, hist, result>>

rvars == <<rn, proc>>

vars == <<dirs, files, noread, pc, stack, git, svn, ignores, calls,
          cachefile, age, out, spc, hist, result, rn, proc>>

\* run() has not been called.
NoRun ==
    [pos |-> "none", phase |-> "top", i |-> 0, push |-> FALSE,
     q |-> [pull |-> FALSE, push |-> FALSE, url |-> [t |-> "None", v |-> ""]],
     pullrc |-> 0, ok |-> << >>, error |-> << >>, cmds |-> << >>,
     level |-> "none", ret |-> 0 - 1, exc |-> "no",
     stale |-> FALSE, prevstale |-> FALSE]

\* run_command has not been called.
NoProc ==
    [state |-> "none", caller |-> "none", workingdir |-> [t |-> "None"],
     cmd |-> [t |-> "None"], timeout |-> 0, argv |-> << >>, need |-> 0,
     code |-> 0, alive |-> FALSE, waited |-> 0, returncode |-> 0, exc |-> "no"]

-----------------------------------------------------------------------------
(* Bounds of the filesystem the scan is checked on. *)

MaxEntries == 5     \* directories + files + unlistable flags, base included
MaxDepth == 3       \* longest path below the base path

-----------------------------------------------------------------------------
(* Names. *)

IGNORE_FILE == ".recursive_rcs_update_ignore"

IGNORE_FILE_NOGITPUSH == ".recursive_rcs_update_no-git-push"

RCS_DIR_NAMES == <<".git", ".svn">>

DIRS_TO_IGNORE == {".metadata", ".vs", "build", "target"}

\* The entry names of the model, in the order sorted() gives them
\* (Python compares str by code point: '+' < '.' < 'A'..'Z' < 'a'..'z').
NameOrder ==
    << "+a", ".GIT", ".SVN", ".git", IGNORE_FILE, IGNORE_FILE_NOGITPUSH,
       ".svn", "Build", "build", "z" >>

\* Names the environment creates directories with.
DirNames == {"+a", ".GIT", ".SVN", ".git", ".svn", "Build", "build", "z"}

\* Names the environment creates regular files with.
FileNames == {IGNORE_FILE, IGNORE_FILE_NOGITPUSH, ".git"}

BasePath == << >>

\* str.lower() on the names of the model.
Lower(n) ==
    CASE n = ".GIT" -> ".git"
      [] n = ".SVN" -> ".svn"
      [] n = "Build" -> "build"
      [] OTHER -> n

\* sorted(entries)
Sorted(S) == SelectSeq(NameOrder, LAMBDA n : n \in S)

-----------------------------------------------------------------------------
(* Paths. *)

IsPrefix(p, q) == Len(p) <= Len(q) /\ SubSeq(q, 1, Len(p)) = p

IsStrictAncestor(p, q) == Len(p) < Len(q) /\ IsPrefix(p, q)

Range(s) == {s[i] : i \in 1..Len(s)}

\* root.joinpath(filename)
JoinPath(p, n) == Append(p, n)

-----------------------------------------------------------------------------
(* The filesystem, as the scan observes it. *)

\* Path.exists() in the place of Path.is_dir()
IsDir_Exists(p) == p \in dirs \cup files

\* Path.is_dir()
IsDir(p) == p \in dirs

\* os.listdir(p) raises (not a directory, or not listable)
ListDirRaises(p) == p \notin dirs \/ p \in noread

\* os.listdir(p): the names of the direct entries of p
ListDir(p) ==
    {n \in Range(NameOrder) : JoinPath(p, n) \in dirs \cup files}

NEntries == Cardinality(dirs \cup files) + Cardinality(noread)

\* The paths the environment may create next with one of the names ns.
NewPaths(ns) ==
    ((IF BasePath \in dirs \cup files THEN {} ELSE {BasePath})
        \cup {JoinPath(p, n) : p \in {d \in dirs : Len(d) < MaxDepth}, n \in ns})
    \ (dirs \cup files)

Mkdir ==
    /\ pc = "idle"
    /\ NEntries < MaxEntries
    /\ \E q \in NewPaths(DirNames) : dirs' = dirs \cup {q}
    /\ UNCHANGED <<files, noread, pc, stack, git, svn, ignores, calls>>
    /\ UNCHANGED cvars
    /\ UNCHANGED rvars

Touch ==
    /\ pc = "idle"
    /\ NEntries < MaxEntries
    /\ \E q \in NewPaths(FileNames) : files' = files \cup {q}
    /\ UNCHANGED <<dirs, noread, pc, stack, git, svn, ignores, calls>>
    /\ UNCHANGED cvars
    /\ UNCHANGED rvars

Chmod ==
    /\ pc = "idle"
    /\ NEntries < MaxEntries
    /\ \E d \in dirs \ noread : noread' = noread \cup {d}
    /\ UNCHANGED <<dirs, files, pc, stack, git, svn, ignores, calls>>
    /\ UNCHANGED cvars
    /\ UNCHANGED rvars

-----------------------------------------------------------------------------
(* The scan. *)

Frame(root, phase, todo) == [root |-> root, phase |-> phase, todo |-> todo]

Top == stack[Len(stack)]

\* return: the innermost frame is left
Return(st) == SubSeq(st, 1, Len(st) - 1)

\* for filename in sorted(entries): the innermost frame starts its loop
BeginLoop(st) ==
    [st EXCEPT ![Len(st)] =
        Frame(st[Len(st)].root, "loop", Sorted(ListDir(st[Len(st)].root)))]

\* The loop that does not move on to its next entry.
Continue_SameEntry(st) == st

\* continue: the innermost frame goes on with its next entry
Continue(st) ==
    [st EXCEPT ![Len(st)] =
        Frame(st[Len(st)].root, "loop", Tail(st[Len(st)].todo))]

\* The two marker tests in the opposite order.
EntryRule_NoGitPushFirst(entries) ==
    IF IGNORE_FILE_NOGITPUSH \in entries THEN "nopush"
    ELSE IF IGNORE_FILE \in entries THEN "ignore"
    ELSE "loop"

\* The first rule that applies to the entries of a directory.
EntryRule(entries) ==
    IF IGNORE_FILE \in entries THEN "ignore"
    ELSE IF IGNORE_FILE_NOGITPUSH \in entries THEN "nopush"
    ELSE "loop"

\* The return after candidates.ignores.append(root) left out.
AfterIgnore_NoReturn(st) == BeginLoop(st)

\* return after candidates.ignores.append(root)
AfterIgnore(st) == Return(st)

\* The return of the no-git-push rule left out.
AfterNoGitPush_NoReturn(st) == BeginLoop(st)

\* return of the no-git-push rule
AfterNoGitPush(st) == Return(st)

\* continue in the place of the return after candidates.git.append(root)
AfterGit_Continue(st) == Continue(st)

\* return after candidates.git.append(root)
AfterGit(st) == Return(st)

\* continue in the place of the return after candidates.svn.append(root)
AfterSvn_Continue(st) == Continue(st)

\* return after candidates.svn.append(root)
AfterSvn(st) == Return(st)

\* The denylist test made case-insensitive.
IsIgnoredDir_AnyCase(dirname) == Lower(dirname) \in DIRS_TO_IGNORE

\* dirname in DIRS_TO_IGNORE
IsIgnoredDir(dirname) == dirname \in DIRS_TO_IGNORE

IsGitName(dirname) == Lower(dirname) = RCS_DIR_NAMES[1]

\* The Subversion test made case-sensitive.
IsSvnName_CaseSensitive(dirname) == dirname = RCS_DIR_NAMES[2]

IsSvnName(dirname) == Lower(dirname) = RCS_DIR_NAMES[2]

\* scan_for_folder_candidates(root): fresh candidates, first recursive call
StartScan ==
    /\ spc \in {"direct", "scanning"}
    /\ pc = "idle"
    /\ pc' = "scan"
    /\ git' = << >> /\ svn' = << >> /\ ignores' = << >>
    /\ stack' = << Frame(BasePath, "enter", << >>) >>
    /\ calls' = << BasePath >>
    /\ UNCHANGED <<dirs, files, noread>>
    /\ UNCHANGED cvars
    /\ UNCHANGED rvars

Entering == pc = "scan" /\ stack # << >> /\ Top.phase = "enter"

Looping == pc = "scan" /\ stack # << >> /\ Top.phase = "loop"

EnterNotDir ==
    /\ Entering
    /\ ~IsDir(Top.root)
    /\ stack' = Return(stack)
    /\ UNCHANGED <<dirs, files, noread, pc, git, svn, ignores, calls>>
    /\ UNCHANGED cvars
    /\ UNCHANGED rvars

EnterListError ==
    /\ Entering
    /\ IsDir(Top.root)
    /\ ListDirRaises(Top.root)
    /\ pc' = "raised"
    /\ stack' = << >>
    /\ UNCHANGED <<dirs, files, noread, git, svn, ignores, calls>>
    /\ UNCHANGED cvars
    /\ UNCHANGED rvars

EnterIgnore ==
    /\ Entering
    /\ IsDir(Top.root)
    /\ ~ListDirRaises(Top.root)
    /\ EntryRule(ListDir(Top.root)) = "ignore"
    /\ ignores' = Append(ignores, Top.root)
    /\ stack' = AfterIgnore(stack)
    /\ UNCHANGED <<dirs, files, noread, pc, git, svn, calls>>
    /\ UNCHANGED cvars
    /\ UNCHANGED rvars

EnterNoGitPush ==
    /\ Entering
    /\ IsDir(Top.root)
    /\ ~ListDirRaises(Top.root)
    /\ EntryRule(ListDir(Top.root)) = "nopush"
    /\ stack' = AfterNoGitPush(stack)
    /\ UNCHANGED <<dirs, files, noread, pc, git, svn, ignores, calls>>
    /\ UNCHANGED cvars
    /\ UNCHANGED rvars

EnterLoop ==
    /\ Entering
    /\ IsDir(Top.root)
    /\ ~ListDirRaises(Top.root)
    /\ EntryRule(ListDir(Top.root)) = "loop"
    /\ stack' = BeginLoop(stack)
    /\ UNCHANGED <<dirs, files, noread, pc, git, svn, ignores, calls>>
    /\ UNCHANGED cvars
    /\ UNCHANGED rvars

LoopEnd ==
    /\ Looping
    /\ Top.todo = << >>
    /\ stack' = Return(stack)
    /\ UNCHANGED <<dirs, files, noread, pc, git, svn, ignores, calls>>
    /\ UNCHANGED cvars
    /\ UNCHANGED rvars

LoopSkipFile ==
    /\ Looping
    /\ Top.todo # << >>
    /\ ~IsDir(JoinPath(Top.root, Head(Top.todo)))
    /\ stack' = Continue(stack)
    /\ UNCHANGED <<dirs, files, noread, pc, git, svn, ignores, calls>>
    /\ UNCHANGED cvars
    /\ UNCHANGED rvars

LoopSkipIgnoredDir ==
    /\ Looping
    /\ Top.todo # << >>
    /\ IsDir(JoinPath(Top.root, Head(Top.todo)))
    /\ IsIgnoredDir(Head(Top.todo))
    /\ stack' = Continue(stack)
    /\ UNCHANGED <<dirs, files, noread, pc, git, svn, ignores, calls>>
    /\ UNCHANGED cvars
    /\ UNCHANGED rvars

LoopGit ==
    /\ Looping
    /\ Top.todo # << >>
    /\ IsDir(JoinPath(Top.root, Head(Top.todo)))
    /\ ~IsIgnoredDir(Head(Top.todo))
    /\ IsGitName(Head(Top.todo))
    /\ git' = Append(git, Top.root)
    /\ stack' = AfterGit(stack)
    /\ UNCHANGED <<dirs, files, noread, pc, svn, ignores, calls>>
    /\ UNCHANGED cvars
    /\ UNCHANGED rvars

LoopSvn ==
    /\ Looping
    /\ Top.todo # << >>
    /\ IsDir(JoinPath(Top.root, Head(Top.todo)))
    /\ ~IsIgnoredDir(Head(Top.todo))
    /\ ~IsGitName(Head(Top.todo))
    /\ IsSvnName(Head(Top.todo))
    /\ svn' = Append(svn, Top.root)
    /\ stack' = AfterSvn(stack)
    /\ UNCHANGED <<dirs, files, noread, pc, git, ignores, calls>>
    /\ UNCHANGED cvars
    /\ UNCHANGED rvars

LoopRecurse ==
    /\ Looping
    /\ Top.todo # << >>
    /\ IsDir(JoinPath(Top.root, Head(Top.todo)))
    /\ ~IsIgnoredDir(Head(Top.todo))
    /\ ~IsGitName(Head(Top.todo))
    /\ ~IsSvnName(Head(Top.todo))
    /\ stack' = Append(Continue(stack),
                       Frame(JoinPath(Top.root, Head(Top.todo)), "enter", << >>))
    /\ calls' = Append(calls, JoinPath(Top.root, Head(Top.todo)))
    /\ UNCHANGED <<dirs, files, noread, pc, git, svn, ignores>>
    /\ UNCHANGED cvars
    /\ UNCHANGED rvars

\* return candidates
Finish ==
    /\ pc = "scan"
    /\ stack = << >>
    /\ pc' = "done"
    /\ UNCHANGED <<dirs, files, noread, stack, git, svn, ignores, calls>>
    /\ UNCHANGED cvars
    /\ UNCHANGED rvars

-----------------------------------------------------------------------------
(* The cache file (recursivegitupdate/foldercandidatescache.py).           *)
(*                                                                         *)
(* A Python value that is a path or a string is a record with its type    *)
(* and its text.  The version field of a record is a Python value too.    *)

MaxClock == 3       \* largest age of the cache file, in TimeUnits

CACHE_VERSION == 3

\* sys.maxsize (of a 32-bit build)
SYS_MAXSIZE == 2147483647

PathObj(p) == [t |-> "Path", v |-> p]

StrObj(p) == [t |-> "str", v |-> p]

VInt(n) == [t |-> "int", n |-> n, s |-> ""]

VStr(s) == [t |-> "str", n |-> 0, s |-> s]

\* A float, given in tenths.
VFloat(tenths) == [t |-> "float", n |-> tenths, s |-> ""]

VNone == [t |-> "None", n |-> 0, s |-> ""]

CacheData(root, candidates, cache_version) ==
    [root |-> root, candidates |-> candidates, cache_version |-> cache_version]

NoFile == [kind |-> "absent"]

Garbage == [kind |-> "garbage"]

JsonFile(obj) == [kind |-> "json", obj |-> obj]

\* Path.is_file() of the cache file
IsFile(file) == file.kind # "absent"

\* convert_value: a Path becomes its string, other values stay
ConvertValue(value) == IF value.t = "Path" THEN StrObj(value.v) ELSE value

ConvertList(vlist) == [i \in 1..Len(vlist) |-> ConvertValue(vlist[i])]

ConvertDict(d) == [k \in DOMAIN d |-> ConvertList(d[k])]

\* __write: asdict with custom_dict_factory, then json.dump
Write(data) ==
    JsonFile([root |-> ConvertValue(data.root),
              candidates |-> ConvertDict(data.candidates),
              cache_version |-> data.cache_version])

\* Path(v)
ToPath(value) == PathObj(value.v)

ToPathList(vlist) == [i \in 1..Len(vlist) |-> ToPath(vlist[i])]

\* load without the conversion of the candidate entries.
ToPaths_RootOnly(data) == [data EXCEPT !.root = ToPath(data.root)]

\* load: convert simple strings to Path
ToPaths(data) ==
    [data EXCEPT !.root = ToPath(data.root),
                 !.candidates = [k \in DOMAIN data.candidates |->
                                    ToPathList(data.candidates[k])]]

\* __read: json.load and the three subscripts
ReadRaises(file) ==
    IF file.kind # "json" THEN "JSONDecodeError"
    ELSE IF {"root", "candidates", "cache_version"} \subseteq DOMAIN file.obj
         THEN "no"
         ELSE "KeyError"

Read(file) ==
    CacheData(file.obj.root, file.obj.candidates, file.obj.cache_version)

\* int(version) raises
IntRaises(version) ==
    \/ version.t = "None"
    \/ version.t = "str" /\ version.s # "3"

\* int(version)
IntOf(version) ==
    CASE version.t = "int" -> version.n
      [] version.t = "float" -> version.n \div 10
      [] version.t = "str" -> 3
      [] OTHER -> 0

\* __check_version that lets a greater version pass.
CheckVersionRaises_OlderOnly(data) ==
    \/ IntRaises(data.cache_version)
    \/ IntOf(data.cache_version) < CACHE_VERSION

\* __check_version raises RuntimeError
CheckVersionRaises(data) ==
    \/ IntRaises(data.cache_version)
    \/ IntOf(data.cache_version) # CACHE_VERSION

\* get_age without the except clause.
GetAge_NoExcept(statfails) ==
    [raised |-> statfails, days |-> age]

\* get_age: the age of the file, sys.maxsize when stat fails
GetAge(statfails) ==
    [raised |-> FALSE, days |-> IF statfails THEN SYS_MAXSIZE ELSE age]

\* __is_outdated with >= for >.
IsOutdated_AtLeast(days, maxage) == days >= maxage

\* __is_outdated
IsOutdated(days, maxage) == days > maxage

\* load that reads an existing file whatever its age.
LoadExisting_NoAgeTest(maxage, statfails) ==
    IF ReadRaises(cachefile) # "no" THEN [ret |-> ReadRaises(cachefile)]
    ELSE IF CheckVersionRaises(Read(cachefile)) THEN [ret |-> "RuntimeError"]
    ELSE [ret |-> "data", data |-> ToPaths(Read(cachefile))]

\* load, when the cache file is there: None for an outdated file, else the
\* record read, validated and converted
LoadExisting(maxage, statfails) ==
    IF GetAge(statfails).raised THEN [ret |-> "OSError"]
    ELSE IF IsOutdated(GetAge(statfails).days, maxage) THEN [ret |-> "None"]
    ELSE IF ReadRaises(cachefile) # "no" THEN [ret |-> ReadRaises(cachefile)]
    ELSE IF CheckVersionRaises(Read(cachefile)) THEN [ret |-> "RuntimeError"]
    ELSE [ret |-> "data", data |-> ToPaths(Read(cachefile))]

\* load that reads and validates the file before it looks at its age.
LoadOutcome_ReadFirst(maxage, statfails) ==
    IF ~IsFile(cachefile) THEN [ret |-> "None"]
    ELSE IF ReadRaises(cachefile) # "no" THEN [ret |-> ReadRaises(cachefile)]
    ELSE IF CheckVersionRaises(Read(cachefile)) THEN [ret |-> "RuntimeError"]
    ELSE IF GetAge(statfails).raised THEN [ret |-> "OSError"]
    ELSE IF IsOutdated(GetAge(statfails).days, maxage) THEN [ret |-> "None"]
    ELSE [ret |-> "data", data |-> ToPaths(Read(cachefile))]

\* load: what it returns or raises
LoadOutcome(maxage, statfails) ==
    IF ~IsFile(cachefile) THEN [ret |-> "None"]
    ELSE LoadExisting(maxage, statfails)

\* load that leaves a file it has used with a new modification time.
AfterLoad_Touched(file, fileage) == [file |-> file, age |-> 0]

\* load: the cache file and its age once load is over; load only stats the
\* file and opens it for reading
AfterLoad(file, fileage) == [file |-> file, age |-> fileage]

\* invalidate without the is_file test.
InvalidateOutcome_NoTest(file) ==
    IF IsFile(file) THEN [ret |-> "ok", file |-> NoFile]
    ELSE [ret |-> "FileNotFoundError", file |-> file]

\* invalidate: unlink the file when it is there
InvalidateOutcome(file) ==
    [ret |-> "ok", file |-> IF IsFile(file) THEN NoFile ELSE file]

\* The log entry of one operation on the cache.
Log(op, o, file, fileage, maxage, statfails, arg) ==
    [op |-> op, outcome |-> o, file |-> file, age |-> fileage,
     maxage |-> maxage, statfails |-> statfails, arg |-> arg]

NoArg == [none |-> TRUE]

NoOut == Log("none", [ret |-> "ok"], NoFile, 0, 0, FALSE, NoArg)

\* The records the tests and the callers hand to update.
Roots == {BasePath, <<"z">>}

Candidates ==
    { [foo |-> << PathObj(<<"bar">>) >>],
      [git |-> << PathObj(<<"z">>) >>, svn |-> << >>, ignores |-> << >>] }

Versions == {VInt(CACHE_VERSION), VInt(999), VInt(2), VStr("foo"), VStr("3"),
             VFloat(37), VNone}

Records ==
    {CacheData(PathObj(r), c, v) : r \in Roots, c \in Candidates, v \in Versions}

\* The cache files found before the first operation.
InitialFiles ==
    { NoFile, Garbage,
      JsonFile([root |-> StrObj(BasePath),
                candidates |-> [foo |-> << StrObj(<<"bar">>) >>]]),
      JsonFile([root |-> StrObj(BasePath),
                candidates |-> [foo |-> << StrObj(<<"old">>) >>],
                cache_version |-> VInt(CACHE_VERSION)]) }

\* update(data)
Update ==
    /\ spc = "cache"
    /\ \E data \in Records :
        /\ cachefile' = Write(data)
        /\ out' = Log("update", [ret |-> "ok"], cachefile, age, 0, FALSE, data)
    /\ age' = 0
    /\ UNCHANGED <<dirs, files, noread, pc, stack, git, svn, ignores, calls>>
    /\ UNCHANGED <<spc, hist, result>>
    /\ UNCHANGED rvars

\* load(), on a cache constructed with outdated_age_max_days = maxage
Load ==
    /\ spc = "cache"
    /\ \E maxage \in 0..MaxClock : \E statfails \in BOOLEAN :
        /\ IsFile(cachefile) \/ ~statfails
        /\ out' = Log("load", LoadOutcome(maxage, statfails), cachefile, age,
                      maxage, statfails, NoArg)
    /\ cachefile' = AfterLoad(cachefile, age).file
    /\ age' = AfterLoad(cachefile, age).age
    /\ UNCHANGED <<dirs, files, noread, pc, stack, git, svn, ignores, calls>>
    /\ UNCHANGED <<spc, hist, result>>
    /\ UNCHANGED rvars

\* invalidate()
Invalidate ==
    /\ spc = "cache"
    /\ cachefile' = InvalidateOutcome(cachefile).file
    /\ age' = IF IsFile(cachefile') THEN age ELSE 0
    /\ out' = Log("invalidate", [ret |-> InvalidateOutcome(cachefile).ret],
                  cachefile, age, 0, FALSE, NoArg)
    /\ UNCHANGED <<dirs, files, noread, pc, stack, git, svn, ignores, calls>>
    /\ UNCHANGED <<spc, hist, result>>
    /\ UNCHANGED rvars

\* Time passes: the cache file grows older.
Tick ==
    /\ spc \in {"cache", "idle"}
    /\ IsFile(cachefile)
    /\ age < MaxClock
    /\ age' = age + 1
    /\ UNCHANGED <<dirs, files, noread, pc, stack, git, svn, ignores, calls>>
    /\ UNCHANGED <<cachefile, out, spc, hist, result>>
    /\ UNCHANGED rvars

NoResult == [none |-> TRUE]

InitCache ==
    /\ dirs = {BasePath}
    /\ files = {}
    /\ noread = {}
    /\ pc = "idle"
    /\ stack = << >>
    /\ git = << >>
    /\ svn = << >>
    /\ ignores = << >>
    /\ calls = << >>
    /\ cachefile \in InitialFiles
    /\ age = 0
    /\ out = NoOut
    /\ spc = "cache"
    /\ hist = << >>
    /\ result = NoResult
    /\ rn = NoRun
    /\ proc = NoProc

NextCache ==
    \/ Update
    \/ Load
    \/ Invalidate
    \/ Tick

SpecCache == InitCache /\ [][NextCache]_vars

-----------------------------------------------------------------------------
(* setup_cache (recursivegitupdate/recursive_update.py). *)

MaxRuns == 2        \* calls of setup_cache in one behaviour

\* A list of scanned paths as a list of Path values.
PathList(s) == [i \in 1..Len(s) |-> PathObj(s[i])]

\* The FolderCandidates the scan has filled.
FolderCandidates == [git |-> PathList(git), svn |-> PathList(svn),
                     ignores |-> PathList(ignores)]

\* dict.get(key, [])
Get(d, key) == IF key \in DOMAIN d THEN d[key] ELSE << >>

\* The conversion with a wrong key for the ignores.
FromCache_WrongKey(data) ==
    [git |-> Get(data.candidates, "git"),
     svn |-> Get(data.candidates, "svn"),
     ignores |-> Get(data.candidates, "ignored")]

\* FolderCandidates(git=..., svn=..., ignores=...) from the cached record
FromCache(data) ==
    [git |-> Get(data.candidates, "git"),
     svn |-> Get(data.candidates, "svn"),
     ignores |-> Get(data.candidates, "ignores")]

\* The root test left out.
RootMatches_Always(data) == TRUE

\* data.root == basepath
RootMatches(data) == data.root = PathObj(BasePath)

\* cache.load() returned None: a scan follows
SetupLoadAbsent ==
    /\ spc = "idle"
    /\ \E maxage \in 0..MaxClock :
        /\ LoadOutcome(maxage, FALSE).ret = "None"
        /\ out' = Log("load", LoadOutcome(maxage, FALSE), cachefile, age,
                      maxage, FALSE, NoArg)
    /\ spc' = "scanning"
    /\ cachefile' = AfterLoad(cachefile, age).file
    /\ age' = AfterLoad(cachefile, age).age
    /\ UNCHANGED <<dirs, files, noread, pc, stack, git, svn, ignores, calls>>
    /\ UNCHANGED <<hist, result>>
    /\ UNCHANGED rvars

\* cache.load() returned a record for this base path
SetupUseCache ==
    /\ spc = "idle"
    /\ \E maxage \in 0..MaxClock :
        /\ LoadOutcome(maxage, FALSE).ret = "data"
        /\ RootMatches(LoadOutcome(maxage, FALSE).data)
        /\ out' = Log("load", LoadOutcome(maxage, FALSE), cachefile, age,
                      maxage, FALSE, NoArg)
        /\ result' = FromCache(LoadOutcome(maxage, FALSE).data)
    /\ spc' = "done"
    /\ hist' = Append(hist, "cached")
    /\ cachefile' = AfterLoad(cachefile, age).file
    /\ age' = AfterLoad(cachefile, age).age
    /\ UNCHANGED <<dirs, files, noread, pc, stack, git, svn, ignores, calls>>
    /\ UNCHANGED rvars

\* cache.load() returned a record for another base path
SetupRootMismatch ==
    /\ spc = "idle"
    /\ \E maxage \in 0..MaxClock :
        /\ LoadOutcome(maxage, FALSE).ret = "data"
        /\ ~RootMatches(LoadOutcome(maxage, FALSE).data)
        /\ out' = Log("load", LoadOutcome(maxage, FALSE), cachefile, age,
                      maxage, FALSE, NoArg)
    /\ spc' = "raised"
    /\ hist' = Append(hist, "RuntimeWarning")
    /\ cachefile' = AfterLoad(cachefile, age).file
    /\ age' = AfterLoad(cachefile, age).age
    /\ UNCHANGED <<dirs, files, noread, pc, stack, git, svn, ignores, calls>>
    /\ UNCHANGED result
    /\ UNCHANGED rvars

\* cache.load() raised
SetupLoadError ==
    /\ spc = "idle"
    /\ \E maxage \in 0..MaxClock :
        /\ LoadOutcome(maxage, FALSE).ret \notin {"None", "data"}
        /\ out' = Log("load", LoadOutcome(maxage, FALSE), cachefile, age,
                      maxage, FALSE, NoArg)
        /\ hist' = Append(hist, LoadOutcome(maxage, FALSE).ret)
    /\ spc' = "raised"
    /\ cachefile' = AfterLoad(cachefile, age).file
    /\ age' = AfterLoad(cachefile, age).age
    /\ UNCHANGED <<dirs, files, noread, pc, stack, git, svn, ignores, calls>>
    /\ UNCHANGED result
    /\ UNCHANGED rvars

\* the scan raised
SetupScanRaised ==
    /\ spc = "scanning"
    /\ pc = "raised"
    /\ spc' = "raised"
    /\ hist' = Append(hist, "PermissionError")
    /\ UNCHANGED <<dirs, files, noread, pc, stack, git, svn, ignores, calls>>
    /\ UNCHANGED <<cachefile, age, out, result>>
    /\ UNCHANGED rvars

\* data = CacheData(basepath, candidates); cache.update(data)
SetupUpdate ==
    /\ spc = "scanning"
    /\ pc = "done"
    /\ BasePath \in dirs
    /\ cachefile' =
        Write(CacheData(PathObj(BasePath), FolderCandidates, VInt(CACHE_VERSION)))
    /\ age' = 0
    /\ out' = Log("update", [ret |-> "ok"], cachefile, age, 0, FALSE,
                  CacheData(PathObj(BasePath), FolderCandidates, VInt(CACHE_VERSION)))
    /\ result' = FolderCandidates
    /\ spc' = "done"
    /\ hist' = Append(hist, "scanned")
    /\ UNCHANGED <<dirs, files, noread, pc, stack, git, svn, ignores, calls>>
    /\ UNCHANGED rvars

\* cache.update(data) cannot create the file: the base path is no directory
SetupUpdateError ==
    /\ spc = "scanning"
    /\ pc = "done"
    /\ BasePath \notin dirs
    /\ spc' = "raised"
    /\ hist' = Append(hist, "FileNotFoundError")
    /\ UNCHANGED <<dirs, files, noread, pc, stack, git, svn, ignores, calls>>
    /\ UNCHANGED <<cachefile, age, out, result>>
    /\ UNCHANGED rvars

\* The next call of setup_cache on the same base path.
SetupAgain ==
    /\ spc \in {"done", "raised"}
    /\ Len(hist) < MaxRuns
    /\ spc' = "idle"
    /\ pc' = "idle"
    /\ stack' = << >>
    /\ result' = NoResult
    /\ UNCHANGED <<dirs, files, noread, git, svn, ignores, calls>>
    /\ UNCHANGED <<cachefile, age, out, hist>>
    /\ UNCHANGED rvars

\* The trees setup_cache is run on.
SetupDirs ==
    { << >>, <<"+a">>, <<"+a", ".git">>, <<"build">>, <<"z">>, <<"z", ".svn">> }

SetupFiles ==
    { <<"z", IGNORE_FILE>>, <<"z", ".git">>, <<"+a", IGNORE_FILE_NOGITPUSH>> }

Parent(p) == SubSeq(p, 1, Len(p) - 1)

\* The cache files found by the first call of setup_cache.
SetupInitialFiles ==
    InitialFiles \cup
    { JsonFile([root |-> StrObj(<<"z">>),
                candidates |-> [git |-> << StrObj(<<"z">>) >>,
                                svn |-> << >>, ignores |-> << >>],
                cache_version |-> VInt(CACHE_VERSION)]),
      JsonFile([root |-> StrObj(BasePath),
                candidates |-> [git |-> << >>, svn |-> << >>, ignores |-> << >>],
                cache_version |-> VInt(2)]) }

InitSetup ==
    /\ dirs \in {D \in SUBSET SetupDirs : \A p \in D : p = << >> \/ Parent(p) \in D}
    /\ files \in {F \in SUBSET SetupFiles : \A p \in F : Parent(p) \in dirs}
    /\ noread \in SUBSET (dirs \cap {<<"z">>})
    /\ pc = "idle"
    /\ stack = << >>
    /\ git = << >>
    /\ svn = << >>
    /\ ignores = << >>
    /\ calls = << >>
    /\ cachefile \in SetupInitialFiles
    /\ IsFile(cachefile) => BasePath \in dirs
    /\ age = 0
    /\ out = NoOut
    /\ spc = "idle"
    /\ hist = << >>
    /\ result = NoResult
    /\ rn = NoRun
    /\ proc = NoProc

NextSetup ==
    \/ SetupLoadAbsent
    \/ SetupUseCache
    \/ SetupRootMismatch
    \/ SetupLoadError
    \/ SetupScanRaised
    \/ SetupUpdate
    \/ SetupUpdateError
    \/ SetupAgain
    \/ Tick
    \/ StartScan
    \/ EnterNotDir
    \/ EnterListError
    \/ EnterIgnore
    \/ EnterNoGitPush
    \/ EnterLoop
    \/ LoopEnd
    \/ LoopSkipFile
    \/ LoopSkipIgnoredDir
    \/ LoopGit
    \/ LoopSvn
    \/ LoopRecurse
    \/ Finish

SpecSetup == InitSetup /\ [][NextSetup]_vars

-----------------------------------------------------------------------------
(* run_command (recursivegitupdate/utils/run_utils.py) and call_git        *)
(* (recursivegitupdate/utils/git_utils.py).                                *)
(*                                                                         *)
(* Time is counted in units of the default timeout of run_command.         *)

MaxNeed == 2        \* longest time a command needs to finish on its own
MaxTimeout == 2     \* largest timeout a caller passes

\* timeout=30: one unit
TIMEOUT_DEFAULT == 1

GIT_CMD == "/usr/bin/git"

\* the signal of Popen.kill()
SIGKILL == 9

\* The command lines of run() and of the tests.
GIT_PULL == "git pull --recurse-submodules --all"

GIT_PUSH == "git push --all"

SVN_UP == "svn up"

\* shlex.split(cmd)
ShlexSplit(cmd) ==
    CASE cmd = GIT_PULL -> <<"git", "pull", "--recurse-submodules", "--all">>
      [] cmd = GIT_PUSH -> <<"git", "push", "--all">>
      [] cmd = SVN_UP -> <<"svn", "up">>
      [] cmd = "/usr/bin/git status" -> <<GIT_CMD, "status">>
      [] cmd = "/usr/bin/git remote --verbose" -> <<GIT_CMD, "remote", "--verbose">>
      [] cmd = "/usr/bin/ls --all" -> <<"/usr/bin/ls", "--all">>
      [] cmd = "sleep 10" -> <<"sleep", "10">>
      [] OTHER -> <<cmd>>

\* The programs Popen finds.
Programs == {"git", "svn", GIT_CMD, "/usr/bin/ls", "sleep"}

\* The exit status of a command that finishes on its own.
ExitCodes == {0, 1, 128}

\* run_command(workingdir, cmd, timeout) has been entered.
Call(workingdir, cmd, timeout) ==
    [state |-> "called", caller |-> "run", workingdir |-> workingdir,
     cmd |-> cmd, timeout |-> timeout, argv |-> << >>, need |-> 0, code |-> 0,
     alive |-> FALSE, waited |-> 0, returncode |-> 0, exc |-> "no"]

\* def run_command(workingdir: Path, cmd: str, timeout=30)
RunCommand(first, second, timeout) == Call(first, second, timeout)

\* workingdir.resolve() raises: a str has no such method
ResolveRaises(workingdir) == workingdir.t # "Path"

\* Popen(shlex.split(cmd), cwd=workingdir) raises
PopenRaises(p) ==
    \/ p.cmd.t # "str"
    \/ ShlexSplit(p.cmd.v)[1] \notin Programs
    \/ p.workingdir.v \notin dirs

\* proc.kill() that sends no signal.
Kill_NoSignal(p) == p

\* proc.kill(): the process ends with the negated signal number as its status
Kill(p) == [p EXCEPT !.alive = FALSE, !.returncode = 0 - SIGKILL]

\* logging.debug(..., workingdir.resolve()) raises
CmdResolveError ==
    /\ proc.state = "called"
    /\ ResolveRaises(proc.workingdir)
    /\ proc' = [proc EXCEPT !.state = "raised", !.exc = "AttributeError"]
    /\ UNCHANGED <<dirs, files, noread, pc, stack, git, svn, ignores, calls>>
    /\ UNCHANGED <<cvars, rn>>

\* Popen raises: no such program or no such working directory
CmdPopenError ==
    /\ proc.state = "called"
    /\ ~ResolveRaises(proc.workingdir)
    /\ PopenRaises(proc)
    /\ proc' = [proc EXCEPT !.state = "raised", !.exc = "FileNotFoundError"]
    /\ UNCHANGED <<dirs, files, noread, pc, stack, git, svn, ignores, calls>>
    /\ UNCHANGED <<cvars, rn>>

\* Popen starts the process; the first communicate begins
CmdPopen ==
    /\ proc.state = "called"
    /\ ~ResolveRaises(proc.workingdir)
    /\ ~PopenRaises(proc)
    /\ \E need \in 0..MaxNeed : \E code \in ExitCodes :
        proc' = [proc EXCEPT !.state = "communicate",
                             !.argv = ShlexSplit(proc.cmd.v),
                             !.need = need, !.code = code, !.alive = TRUE]
    /\ UNCHANGED <<dirs, files, noread, pc, stack, git, svn, ignores, calls>>
    /\ UNCHANGED <<cvars, rn>>

\* communicate waits while the process runs
CmdWait ==
    /\ proc.state \in {"communicate", "communicate2"}
    /\ proc.alive
    /\ proc.waited < proc.need
    /\ proc.state = "communicate" => proc.waited < proc.timeout
    /\ proc' = [proc EXCEPT !.waited = proc.waited + 1]
    /\ UNCHANGED <<dirs, files, noread, pc, stack, git, svn, ignores, calls>>
    /\ UNCHANGED <<cvars, rn>>

\* the process finishes within the timeout: communicate returns, and
\* run_command returns the status of the process
CmdReturn ==
    /\ proc.state = "communicate"
    /\ proc.waited = proc.need
    /\ proc' = [proc EXCEPT !.state = "returned", !.alive = FALSE,
                            !.returncode = proc.code]
    /\ UNCHANGED <<dirs, files, noread, pc, stack, git, svn, ignores, calls>>
    /\ UNCHANGED <<cvars, rn>>

\* except TimeoutExpired: proc.kill(), then the second communicate begins
CmdTimeout ==
    /\ proc.state = "communicate"
    /\ proc.waited = proc.timeout
    /\ proc.waited < proc.need
    /\ proc' = [Kill(proc) EXCEPT !.state = "communicate2"]
    /\ UNCHANGED <<dirs, files, noread, pc, stack, git, svn, ignores, calls>>
    /\ UNCHANGED <<cvars, rn>>

\* the second communicate returns when the process has ended; run_command
\* returns the status of the process
CmdReturnAfterKill ==
    /\ proc.state = "communicate2"
    /\ ~proc.alive \/ proc.waited = proc.need
    /\ proc' = [proc EXCEPT !.state = "returned", !.alive = FALSE,
                            !.returncode = IF proc.alive THEN proc.code
                                           ELSE proc.returncode]
    /\ UNCHANGED <<dirs, files, noread, pc, stack, git, svn, ignores, calls>>
    /\ UNCHANGED <<cvars, rn>>

\* The working directories and the arguments of the callers.
WorkDirs == {BasePath, <<"z">>}

GitArguments == {"status", "remote --verbose"}

CommandLines == {GIT_PULL, SVN_UP, "/usr/bin/ls --all", "sleep 10",
                 "NOSUCHCOMMANDfooo123"}

\* call_git(arguments, cwd)
CallGit ==
    /\ spc = "command"
    /\ proc.state \in {"none", "returned", "raised"}
    /\ \E arguments \in GitArguments : \E cwd \in WorkDirs : \E exists \in BOOLEAN :
        proc' = IF ~exists
                THEN [Call(StrObj(arguments), PathObj(cwd), TIMEOUT_DEFAULT)
                        EXCEPT !.state = "raised", !.exc = "RuntimeError",
                               !.caller = "call_git"]
                ELSE [RunCommand(StrObj(GIT_CMD \o " " \o arguments),
                                 PathObj(cwd), TIMEOUT_DEFAULT)
                        EXCEPT !.caller = "call_git"]
    /\ UNCHANGED <<dirs, files, noread, pc, stack, git, svn, ignores, calls>>
    /\ UNCHANGED <<cvars, rn>>

\* run_command(folder, command line), the way run() calls it
CallAsRun ==
    /\ spc = "command"
    /\ proc.state \in {"none", "returned", "raised"}
    /\ \E cmd \in CommandLines : \E folder \in WorkDirs :
       \E timeout \in 1..MaxTimeout :
        proc' = RunCommand(PathObj(folder), StrObj(cmd), timeout)
    /\ UNCHANGED <<dirs, files, noread, pc, stack, git, svn, ignores, calls>>
    /\ UNCHANGED <<cvars, rn>>

\* run_command(command line, tmp_path), the way the tests call it
CallAsTests ==
    /\ spc = "command"
    /\ proc.state \in {"none", "returned", "raised"}
    /\ \E cmd \in CommandLines : \E folder \in WorkDirs :
       \E timeout \in 1..MaxTimeout :
        proc' = [RunCommand(StrObj(cmd), PathObj(folder), timeout)
                    EXCEPT !.caller = "test"]
    /\ UNCHANGED <<dirs, files, noread, pc, stack, git, svn, ignores, calls>>
    /\ UNCHANGED <<cvars, rn>>

InitCommand ==
    /\ dirs \in {{BasePath}, {BasePath, <<"z">>}}
    /\ files = {}
    /\ noread = {}
    /\ pc = "idle"
    /\ stack = << >>
    /\ git = << >>
    /\ svn = << >>
    /\ ignores = << >>
    /\ calls = << >>
    /\ cachefile = NoFile
    /\ age = 0
    /\ out = NoOut
    /\ spc = "command"
    /\ hist = << >>
    /\ result = NoResult
    /\ rn = NoRun
    /\ proc = NoProc

NextCommand ==
    \/ CallGit
    \/ CallAsRun
    \/ CallAsTests
    \/ CmdResolveError
    \/ CmdPopenError
    \/ CmdPopen
    \/ CmdWait
    \/ CmdReturn
    \/ CmdTimeout
    \/ CmdReturnAfterKill

SpecCommand == InitCommand /\ [][NextCommand]_vars

\* The process and the clock go on: a step that can be taken is taken.
SpecCommandFair == SpecCommand /\ WF_vars(NextCommand)

-----------------------------------------------------------------------------
(* check_git_pullpush (recursivegitupdate/utils/git_utils.py) and run()    *)
(* (recursivegitupdate/recursive_update.py).                               *)
(*                                                                         *)
(* The output of `git remote --verbose` is a sequence of lines, a line the *)
(* sequence of its parts: name, URL, "(fetch)" or "(push)".                *)

svars == <<dirs, files, noread, pc, stack, git, svn, ignores, calls>>

URL_HOST == "ssh://git@hostname/RecursiveGitUpdate.git"

URL_GITHUB == "https://github.com/Ixtalo/RecursiveGitUpdate.git"

\* The two lines of one remote.
Remote(name, url) == << <<name, url, "(fetch)">>, <<name, url, "(push)">> >>

\* What `git remote --verbose` prints in a working copy.
RemoteOutputs ==
    { << >>, Remote("origin", URL_HOST), Remote("origin", URL_GITHUB),
      Remote("origin", "DISABLED"), Remote("foobar", "file://.") }

\* sub in s, for the URLs above
Contains(s, sub) ==
    \/ sub = "github.com" /\ s = URL_GITHUB
    \/ sub = "DISABLED" /\ s = "DISABLED"
    \/ sub = "NONE" /\ s = "NONE"

\* The lines extract_origin_push_url stops at.
OriginPushLines(stdout) ==
    {i \in 1..Len(stdout) :
        Len(stdout[i]) >= 3 /\ stdout[i][1] = "origin" /\ stdout[i][3] = "(push)"}

\* extract_origin_push_url: the URL of the first such line, or None
ExtractOriginPushUrl(stdout) ==
    IF OriginPushLines(stdout) = {} THEN [t |-> "None", v |-> ""]
    ELSE LET i == CHOOSE j \in OriginPushLines(stdout) :
                      \A k \in OriginPushLines(stdout) : j <= k
         IN  [t |-> "str", v |-> stdout[i][2]]

\* check_git_pullpush, from the output of the command
CheckGitPullPush(stdout) ==
    LET push_url == ExtractOriginPushUrl(stdout)
    IN  [pull |-> \E i \in 1..Len(stdout) : stdout[i][3] = "(fetch)",
         push |-> /\ push_url.t # "None"
                  /\ ~Contains(push_url.v, "DISABLED")
                  /\ ~Contains(push_url.v, "NONE"),
         url |-> push_url]

NoQuery == [pull |-> FALSE, push |-> FALSE, url |-> [t |-> "None", v |-> ""]]

\* A result message and the return code it shows.
Msg(text, rc) == [text |-> text, rc |-> rc]

\* One step of run() on a folder: a command issued or returned.
Event(folder, ev, q, rc) == [folder |-> folder, ev |-> ev, q |-> q, rc |-> rc]

\* An assignment that leaves the results as they were.
Put_Nothing(d, folder, msg) == d

\* results.x[folder] = msg
Put(d, folder, msg) == (folder :> msg) @@ d

\* The folder run_git or run_svn is at.
Folders == IF rn.pos = "git" THEN result.git ELSE result.svn

Folder == Folders[rn.i].v

AtFolder(pos, phase) ==
    /\ rn.pos = pos
    /\ rn.phase = phase
    /\ rn.i <= Len(Folders)

\* The cache file left when a folder is missing, with only the entry of the
\* folder taken out of it.
CacheAfterMissing_EntryOnly(file, folder) ==
    IF file.kind # "json" THEN file
    ELSE JsonFile([file.obj EXCEPT !.candidates =
            [k \in DOMAIN file.obj.candidates |->
                SelectSeq(file.obj.candidates[k], LAMBDA e : e.v # folder)]])

\* cache.invalidate() when a folder is missing
CacheAfterMissing(file, folder) == InvalidateOutcome(file).file

\* returncode_pull == 0, with a negative status passing too
PullSucceeded_NotPositive(returncode_pull) == returncode_pull <= 0

\* returncode_pull == 0
PullSucceeded(returncode_pull) == returncode_pull = 0

\* the test of the hosting domain left out
IsGithub_Never(push_url) == FALSE

\* 'github.com' in push_url
IsGithub(push_url) == Contains(push_url.v, "github.com")

\* The level with the test of the ignores before the test of the errors.
Level_IgnoresFirst(n_er, n_ig) ==
    IF n_ig # 0 THEN "WARNING" ELSE IF n_er # 0 THEN "ERROR" ELSE "INFO"

\* the level of the summary line
Level(n_er, n_ig) ==
    IF n_er # 0 THEN "ERROR" ELSE IF n_ig # 0 THEN "WARNING" ELSE "INFO"

\* run() enters run_git after setup_cache has returned
RunStart ==
    /\ spc = "done"
    /\ rn.pos = "none"
    /\ \E git_do_push \in BOOLEAN :
        rn' = [rn EXCEPT !.pos = "git", !.phase = "top", !.i = 1,
                         !.push = git_do_push]
    /\ UNCHANGED <<svars, cvars, proc>>

\* setup_cache raised: so does run()
RunSetupRaised ==
    /\ spc = "raised"
    /\ rn.pos = "none"
    /\ rn' = [rn EXCEPT !.pos = "raised", !.exc = hist[Len(hist)]]
    /\ UNCHANGED <<svars, cvars, proc>>

\* run_git, run_svn: not folder.is_dir(): cache.invalidate(), next folder
RunMissing ==
    /\ \/ AtFolder("git", "top")
       \/ AtFolder("svn", "top")
    /\ ~IsDir(Folder)
    /\ cachefile' = CacheAfterMissing(cachefile, Folder)
    /\ age' = IF IsFile(cachefile') THEN age ELSE 0
    /\ out' = Log("invalidate", [ret |-> InvalidateOutcome(cachefile).ret],
                  cachefile, age, 0, FALSE, NoArg)
    /\ rn' = [rn EXCEPT !.i = rn.i + 1, !.stale = TRUE]
    /\ UNCHANGED <<svars, spc, hist, result, proc>>

\* check_git_pullpush raises: `git remote` ends with a status other than 0
RunGitQueryError ==
    /\ AtFolder("git", "top")
    /\ IsDir(Folder)
    /\ rn' = [rn EXCEPT !.pos = "raised", !.exc = "CalledProcessError",
                !.cmds = Append(rn.cmds, Event(Folder, "query", NoQuery, 1))]
    /\ UNCHANGED <<svars, cvars, proc>>

\* not git_pull_possible: an error entry, next folder
RunGitNoPull ==
    /\ AtFolder("git", "top")
    /\ IsDir(Folder)
    /\ \E stdout \in RemoteOutputs :
        /\ ~CheckGitPullPush(stdout).pull
        /\ rn' = [rn EXCEPT
                    !.error = Put(rn.error, Folder, Msg("no git pull possible", 0)),
                    !.cmds = Append(rn.cmds,
                        Event(Folder, "query", CheckGitPullPush(stdout), 0)),
                    !.i = rn.i + 1]
    /\ UNCHANGED <<svars, cvars, proc>>

\* git_pull_possible: run_command(folder, "git pull ...")
RunGitPull ==
    /\ AtFolder("git", "top")
    /\ IsDir(Folder)
    /\ \E stdout \in RemoteOutputs :
        /\ CheckGitPullPush(stdout).pull
        /\ rn' = [rn EXCEPT
                    !.phase = "pull",
                    !.q = CheckGitPullPush(stdout),
                    !.cmds = rn.cmds \o
                        << Event(Folder, "query", CheckGitPullPush(stdout), 0),
                           Event(Folder, "pull", NoQuery, 0) >>]
    /\ proc' = RunCommand(PathObj(Folder), StrObj(GIT_PULL), TIMEOUT_DEFAULT)
    /\ UNCHANGED <<svars, cvars>>

\* git pull returned another status than 0: an error entry, next folder
RunGitPullFailed ==
    /\ AtFolder("git", "pull")
    /\ proc.state = "returned"
    /\ ~PullSucceeded(proc.returncode)
    /\ rn' = [rn EXCEPT
                !.error = Put(rn.error, Folder,
                              Msg("git pull error!", proc.returncode)),
                !.cmds = Append(rn.cmds,
                                Event(Folder, "pulled", NoQuery, proc.returncode)),
                !.phase = "top", !.q = NoQuery, !.i = rn.i + 1]
    /\ proc' = NoProc
    /\ UNCHANGED <<svars, cvars>>

\* git pull returned 0 and no push follows: pushing is not enabled or not
\* possible, or the push URL is one of github.com
RunGitPullOnly ==
    /\ AtFolder("git", "pull")
    /\ proc.state = "returned"
    /\ PullSucceeded(proc.returncode)
    /\ ~(rn.push /\ rn.q.push) \/ IsGithub(rn.q.url)
    /\ rn' = [rn EXCEPT
                !.ok = Put(rn.ok, Folder, Msg("git pull OK", 0)),
                !.cmds = Append(rn.cmds,
                                Event(Folder, "pulled", NoQuery, proc.returncode)),
                !.phase = "top", !.q = NoQuery, !.i = rn.i + 1]
    /\ proc' = NoProc
    /\ UNCHANGED <<svars, cvars>>

\* git pull returned 0: run_command(folder, "git push --all")
RunGitPush ==
    /\ AtFolder("git", "pull")
    /\ proc.state = "returned"
    /\ PullSucceeded(proc.returncode)
    /\ rn.push /\ rn.q.push
    /\ ~IsGithub(rn.q.url)
    /\ rn' = [rn EXCEPT
                !.ok = Put(rn.ok, Folder, Msg("git pull OK", 0)),
                !.cmds = rn.cmds \o
                    << Event(Folder, "pulled", NoQuery, proc.returncode),
                       Event(Folder, "push", NoQuery, 0) >>,
                !.phase = "push", !.pullrc = proc.returncode]
    /\ proc' = RunCommand(PathObj(Folder), StrObj(GIT_PUSH), TIMEOUT_DEFAULT)
    /\ UNCHANGED <<svars, cvars>>

\* git push returned: the entries of the folder, next folder
RunGitPushed ==
    /\ AtFolder("git", "push")
    /\ proc.state = "returned"
    /\ rn' = [rn EXCEPT
                !.ok = Put(rn.ok, Folder,
                           IF proc.returncode = 0
                           THEN Msg("git pull + push OK", 0)
                           ELSE Msg("git pull OK, push ERROR", 0)),
                !.error = IF proc.returncode = 0 THEN rn.error
                          ELSE Put(rn.error, Folder,
                                   Msg("git push error!", rn.pullrc)),
                !.cmds = Append(rn.cmds,
                                Event(Folder, "pushed", NoQuery, proc.returncode)),
                !.phase = "top", !.q = NoQuery, !.pullrc = 0, !.i = rn.i + 1]
    /\ proc' = NoProc
    /\ UNCHANGED <<svars, cvars>>

\* run_git is through its folders: run_svn
RunGitEnd ==
    /\ rn.pos = "git"
    /\ rn.i > Len(result.git)
    /\ rn' = [rn EXCEPT !.pos = "svn", !.phase = "top", !.i = 1]
    /\ UNCHANGED <<svars, cvars, proc>>

\* run_command(folder, "svn up")
RunSvnUp ==
    /\ AtFolder("svn", "top")
    /\ IsDir(Folder)
    /\ rn' = [rn EXCEPT !.phase = "up",
                        !.cmds = Append(rn.cmds, Event(Folder, "up", NoQuery, 0))]
    /\ proc' = RunCommand(PathObj(Folder), StrObj(SVN_UP), TIMEOUT_DEFAULT)
    /\ UNCHANGED <<svars, cvars>>

\* svn up returned: the entry of the folder, next folder
RunSvnDone ==
    /\ AtFolder("svn", "up")
    /\ proc.state = "returned"
    /\ rn' = [rn EXCEPT
                !.ok = IF proc.returncode # 0 THEN rn.ok
                       ELSE Put(rn.ok, Folder, Msg("svn OK", 0)),
                !.error = IF proc.returncode # 0
                          THEN Put(rn.error, Folder,
                                   Msg("svn ERROR!", proc.returncode))
                          ELSE rn.error,
                !.cmds = Append(rn.cmds,
                                Event(Folder, "upped", NoQuery, proc.returncode)),
                !.phase = "top", !.i = rn.i + 1]
    /\ proc' = NoProc
    /\ UNCHANGED <<svars, cvars>>

\* results.ignored
Ignored == {result.ignores[i].v : i \in 1..Len(result.ignores)}

\* run() returning a status that tells an error from no error.
ReturnValue_BySeverity(level) == IF level = "ERROR" THEN 1 ELSE 0

\* return 0, after the level of the summary line has been chosen
ReturnValue(level) == 0

\* run_svn is through its folders: the overview, the summary line, return 0
RunSummary ==
    /\ rn.pos = "svn"
    /\ rn.i > Len(result.svn)
    /\ rn' = [rn EXCEPT
                !.pos = "returned",
                !.level = Level(Cardinality(DOMAIN rn.error), Cardinality(Ignored)),
                !.ret = ReturnValue(Level(Cardinality(DOMAIN rn.error),
                                          Cardinality(Ignored)))]
    /\ UNCHANGED <<svars, cvars, proc>>

\* The next call of run() on the same base path.
RunAgain ==
    /\ rn.pos \in {"returned", "raised"}
    /\ Len(hist) < MaxRuns
    /\ spc' = "idle"
    /\ pc' = "idle"
    /\ stack' = << >>
    /\ result' = NoResult
    /\ rn' = [NoRun EXCEPT !.prevstale = rn.stale]
    /\ UNCHANGED <<dirs, files, noread, git, svn, ignores, calls>>
    /\ UNCHANGED <<cachefile, age, out, hist, proc>>

\* The trees run() is called on: directories, files, unlistable directories.
Tree(d, f, n) == [dirs |-> d, files |-> f, noread |-> n]

FullDirs ==
    { << >>, <<"+a">>, <<"+a", ".git">>, <<"Build">>, <<"Build", ".git">>,
      <<"build">>, <<"z">>, <<"z", ".svn">> }

RunTrees ==
    { Tree({}, {}, {}),
      Tree({ << >> }, {}, {}),
      Tree(FullDirs, {}, {}),
      Tree(FullDirs, { <<"+a", IGNORE_FILE_NOGITPUSH>>, <<"z", IGNORE_FILE>> }, {}),
      Tree({ << >>, <<"Build">>, <<"Build", ".git">> }, { <<"z">> }, {}),
      Tree({ << >>, <<"+a">>, <<"+a", ".git">>, <<"z">> }, {}, { <<"z">> }) }

\* A cache file as a scan of the base path writes it.
Cached(root, g, s, i, version) ==
    Write(CacheData(PathObj(root),
                    [git |-> PathList(g), svn |-> PathList(s),
                     ignores |-> PathList(i)], version))

\* The cache files found by the first call of run().
RunInitialFiles ==
    { NoFile, Garbage,
      Cached(BasePath, << <<"+a">>, <<"Build">> >>, << <<"z">> >>, << >>,
             VInt(CACHE_VERSION)),
      Cached(<<"z">>, << >>, << >>, << >>, VInt(CACHE_VERSION)) }

InitRun ==
    /\ \E t \in RunTrees :
        /\ dirs = t.dirs
        /\ files = t.files
        /\ noread = t.noread
    /\ pc = "idle"
    /\ stack = << >>
    /\ git = << >>
    /\ svn = << >>
    /\ ignores = << >>
    /\ calls = << >>
    /\ cachefile \in RunInitialFiles
    /\ IsFile(cachefile) => BasePath \in dirs
    /\ age = 0
    /\ out = NoOut
    /\ spc = "idle"
    /\ hist = << >>
    /\ result = NoResult
    /\ rn = NoRun
    /\ proc = NoProc

NextRun ==
    \/ SetupLoadAbsent
    \/ SetupUseCache
    \/ SetupRootMismatch
    \/ SetupLoadError
    \/ SetupScanRaised
    \/ SetupUpdate
    \/ SetupUpdateError
    \/ StartScan
    \/ EnterNotDir
    \/ EnterListError
    \/ EnterIgnore
    \/ EnterNoGitPush
    \/ EnterLoop
    \/ LoopEnd
    \/ LoopSkipFile
    \/ LoopSkipIgnoredDir
    \/ LoopGit
    \/ LoopSvn
    \/ LoopRecurse
    \/ Finish
    \/ RunStart
    \/ RunSetupRaised
    \/ RunMissing
    \/ RunGitQueryError
    \/ RunGitNoPull
    \/ RunGitPull
    \/ RunGitPullFailed
    \/ RunGitPullOnly
    \/ RunGitPush
    \/ RunGitPushed
    \/ RunGitEnd
    \/ RunSvnUp
    \/ RunSvnDone
    \/ RunSummary
    \/ RunAgain
    \/ CmdPopen
    \/ CmdWait
    \/ CmdReturn
    \/ CmdTimeout
    \/ CmdReturnAfterKill

SpecRun == InitRun /\ [][NextRun]_vars

-----------------------------------------------------------------------------

Init ==
    /\ dirs = {}
    /\ files = {}
    /\ noread = {}
    /\ pc = "idle"
    /\ stack = << >>
    /\ git = << >>
    /\ svn = << >>
    /\ ignores = << >>
    /\ calls = << >>
    /\ cachefile = NoFile
    /\ age = 0
    /\ out = NoOut
    /\ spc = "direct"
    /\ hist = << >>
    /\ result = NoResult
    /\ rn = NoRun
    /\ proc = NoProc

Next ==
    \/ Mkdir
    \/ Touch
    \/ Chmod
    \/ StartScan
    \/ EnterNotDir
    \/ EnterListError
    \/ EnterIgnore
    \/ EnterNoGitPush
    \/ EnterLoop
    \/ LoopEnd
    \/ LoopSkipFile
    \/ LoopSkipIgnoredDir
    \/ LoopGit
    \/ LoopSvn
    \/ LoopRecurse
    \/ Finish

Spec == Init /\ [][Next]_vars

\* The steps of a scan that has begun.
ScanStep ==
    \/ EnterNotDir
    \/ EnterListError
    \/ EnterIgnore
    \/ EnterNoGitPush
    \/ EnterLoop
    \/ LoopEnd
    \/ LoopSkipFile
    \/ LoopSkipIgnoredDir
    \/ LoopGit
    \/ LoopSvn
    \/ LoopRecurse
    \/ Finish

TypeOK ==
    /\ pc \in {"idle", "scan", "done", "raised"}
    /\ noread \subseteq dirs
    /\ dirs \cap files = {}

-----------------------------------------------------------------------------
(* Properties of the scan. *)

Rank(n) == CHOOSE i \in 1..Len(NameOrder) : NameOrder[i] = n

Recorded == Range(git) \cup Range(svn)

AllRecorded == Range(git) \cup Range(svn) \cup Range(ignores)

NoDuplicates(s) == \A i, j \in 1..Len(s) : s[i] = s[j] => i = j

Returned == pc \in {"done", "raised"}

EmptyResult == git = << >> /\ svn = << >> /\ ignores = << >>

\* The call on x has got past its guards (is_dir, listdir, the two markers).
Entered(x) ==
    /\ \E i \in 1..Len(calls) : calls[i] = x
    /\ \A i \in 1..Len(stack) : ~(stack[i].root = x /\ stack[i].phase = "enter")

HasVcsDir(x) ==
    \E m \in DirNames :
        /\ JoinPath(x, m) \in dirs
        /\ Lower(m) \in Range(RCS_DIR_NAMES)

\* The loop over the sorted entries of P gets as far as the entry n.
LoopReaches(P, n) ==
    /\ P \in dirs \ noread
    /\ IGNORE_FILE \notin ListDir(P)
    /\ IGNORE_FILE_NOGITPUSH \notin ListDir(P)
    /\ \A m \in DirNames :
        (/\ JoinPath(P, m) \in dirs
         /\ Lower(m) \in Range(RCS_DIR_NAMES)) => Rank(n) < Rank(m)

\* C1: in the result of a scan no path recorded in git or svn is a strict
\* ancestor of another path recorded in git or svn.
C1_NoNestedRoots ==
    pc = "done" =>
        \A p \in Recorded : \A q \in Recorded : ~IsStrictAncestor(p, q)

\* C2: once a directory D has been appended to git or svn, no later
\* recursive call of the scan is made on D or on a directory below D.
C2_NoCallBelowRecorded ==
    [][calls' # calls =>
        \A d \in Recorded : ~IsPrefix(d, calls'[Len(calls')])]_vars

\* A directory was recorded and a sibling that sorts after it was called.
C2_Witness ==
    /\ pc = "done"
    /\ \E d \in Recorded : \E i \in 1..Len(calls) :
        /\ Len(d) > 0
        /\ Len(calls[i]) = Len(d)
        /\ SubSeq(calls[i], 1, Len(d) - 1) = SubSeq(d, 1, Len(d) - 1)
        /\ Rank(d[Len(d)]) < Rank(calls[i][Len(d)])

\* C3: each directory path appears at most once in the result and in at
\* most one of the three sequences git, svn, ignores.
C3_AtMostOnce ==
    /\ NoDuplicates(git) /\ NoDuplicates(svn) /\ NoDuplicates(ignores)
    /\ Range(git) \cap Range(svn) = {}
    /\ Range(git) \cap Range(ignores) = {}
    /\ Range(svn) \cap Range(ignores) = {}

\* A recorded git root that holds a .svn directory as well.
C3_Witness ==
    /\ pc = "done"
    /\ \E d \in Range(git) : JoinPath(d, ".svn") \in dirs

\* C4: when a visited directory X directly contains the recursive-ignore
\* marker, no strict descendant of X is recorded in git, svn or ignores.
C4_NothingBelowIgnored ==
    \A x \in Range(calls) :
        (x \in dirs /\ IGNORE_FILE \in ListDir(x)) =>
            \A p \in AllRecorded : ~IsStrictAncestor(x, p)

\* An ignored directory with a working copy below it.
C4_Witness ==
    /\ pc = "done"
    /\ \E x \in Range(ignores) : \E n \in DirNames :
        /\ n \notin DIRS_TO_IGNORE
        /\ Lower(n) \notin Range(RCS_DIR_NAMES)
        /\ JoinPath(JoinPath(x, n), ".git") \in dirs

\* C5: a visited directory that directly contains the recursive-ignore
\* marker is recorded in ignores and in neither git nor svn, also when it
\* directly contains a VCS directory or the no-push marker.
C5_IgnorePrecedence ==
    \A x \in Range(calls) :
        (/\ Entered(x)
         /\ x \in dirs \ noread
         /\ IGNORE_FILE \in ListDir(x)) =>
            (x \in Range(ignores) /\ x \notin Recorded)

\* An ignored directory that holds a .git directory and the no-push marker.
C5_Witness ==
    /\ pc = "done"
    /\ \E x \in Range(ignores) :
        /\ JoinPath(x, ".git") \in dirs
        /\ IGNORE_FILE_NOGITPUSH \in ListDir(x)

\* C6: a visited directory that directly contains the no-push marker and not
\* the recursive-ignore marker is not recorded, and neither is any of its
\* descendants, also when it directly contains a .git directory.
C6_NoGitPushRecordsNothing ==
    \A x \in Range(calls) :
        (/\ x \in dirs
         /\ IGNORE_FILE_NOGITPUSH \in ListDir(x)
         /\ IGNORE_FILE \notin ListDir(x)) =>
            \A p \in AllRecorded : ~IsPrefix(x, p)

\* A visited directory with the no-push marker and a .git directory.
C6_Witness ==
    /\ pc = "done"
    /\ \E x \in Range(calls) :
        /\ IGNORE_FILE_NOGITPUSH \in ListDir(x)
        /\ IGNORE_FILE \notin ListDir(x)
        /\ JoinPath(x, ".git") \in dirs

\* C7: a visited Git working-copy root that directly contains the no-push
\* marker (and not the recursive-ignore marker) is recorded in git.
C7_NoGitPushStillClassified ==
    pc = "done" =>
        \A x \in Range(calls) :
            (/\ JoinPath(x, ".git") \in dirs
             /\ IGNORE_FILE_NOGITPUSH \in ListDir(x)
             /\ IGNORE_FILE \notin ListDir(x)) =>
                x \in Range(git)

\* C8: a scan of a root that does not exist or is not a directory, or that
\* is an empty directory, raises no error and returns the empty result.
C8_NoRootEmptyResult ==
    (/\ Returned
     /\ \/ BasePath \notin dirs
        \/ (BasePath \notin noread /\ ListDir(BasePath) = {})) =>
        (pc = "done" /\ EmptyResult)

\* The scan of a root that is a regular file has returned.
C8_Witness ==
    /\ pc = "done"
    /\ BasePath \in files

\* C9: a scan of a root that is a directory whose entries cannot be listed
\* raises no error and returns the empty result.
C9_UnlistableRootEmptyResult ==
    (Returned /\ BasePath \in noread) => (pc = "done" /\ EmptyResult)

\* C10: a subdirectory with a denylisted name (exact case) is neither
\* recorded nor descended into; the loop goes on with the entries after it,
\* and a name that differs in letter case is descended into.
C10_Denylist ==
    /\ \A p \in Range(calls) \cup AllRecorded :
        \A i \in 1..Len(p) : p[i] \notin DIRS_TO_IGNORE
    /\ pc = "done" =>
        \A P \in Range(calls) : \A n \in DirNames :
            (/\ LoopReaches(P, n)
             /\ JoinPath(P, n) \in dirs
             /\ n \notin DIRS_TO_IGNORE
             /\ Lower(n) \notin Range(RCS_DIR_NAMES)) =>
                JoinPath(P, n) \in Range(calls)

\* A denylisted directory holding a working copy was passed over, and both
\* the entry after it and its upper-case variant were descended into.
C10_Witness ==
    /\ pc = "done"
    /\ \E P \in Range(calls) :
        /\ JoinPath(JoinPath(P, "build"), ".git") \in dirs
        /\ JoinPath(P, "z") \in Range(calls)
        /\ JoinPath(P, "Build") \in Range(calls)

\* The VCS marker directories directly inside x.
VcsDirs(x) ==
    {m \in DirNames : JoinPath(x, m) \in dirs /\ Lower(m) \in Range(RCS_DIR_NAMES)}

\* The VCS marker directory of x that sorted() puts first.
FirstVcsDir(x) ==
    CHOOSE m \in VcsDirs(x) : \A k \in VcsDirs(x) : Rank(m) <= Rank(k)

\* The loop over the sorted entries of x is reached.
LoopReached(x) ==
    /\ x \in dirs \ noread
    /\ IGNORE_FILE \notin ListDir(x)
    /\ IGNORE_FILE_NOGITPUSH \notin ListDir(x)

\* C11: a visited directory whose loop is reached and which directly holds a
\* Git and a Subversion marker directory (names compared case-insensitively)
\* is recorded in exactly one of git and svn, the one whose marker comes
\* first in sorted order, and no entry after that marker is descended into.
C11_FirstMarkerWins ==
    pc = "done" =>
        \A x \in Range(calls) :
            (/\ LoopReached(x)
             /\ \E m \in VcsDirs(x) : Lower(m) = ".git"
             /\ \E m \in VcsDirs(x) : Lower(m) = ".svn") =>
                /\ (x \in Range(git)) # (x \in Range(svn))
                /\ (x \in Range(git)) = (Lower(FirstVcsDir(x)) = ".git")
                /\ \A c \in Range(calls) :
                    (Len(c) = Len(x) + 1 /\ IsPrefix(x, c)) =>
                        Rank(c[Len(c)]) < Rank(FirstVcsDir(x))

\* A directory holding .SVN and .git was recorded in svn.
C11_Witness ==
    /\ pc = "done"
    /\ \E x \in Range(svn) :
        /\ JoinPath(x, ".SVN") \in dirs
        /\ JoinPath(x, ".git") \in dirs

\* p comes before q in depth-first pre-order with siblings in sorted order.
PreOrderBefore(p, q) ==
    \/ IsStrictAncestor(p, q)
    \/ \E i \in 1..Len(p) :
        /\ i <= Len(q)
        /\ SubSeq(p, 1, i - 1) = SubSeq(q, 1, i - 1)
        /\ p[i] # q[i]
        /\ Rank(p[i]) < Rank(q[i])

InPreOrder(s) == \A i, j \in 1..Len(s) : i < j => PreOrderBefore(s[i], s[j])

\* C12: each of git, svn and ignores lists its paths in depth-first
\* pre-order with sibling entries in lexicographic name order.
C12_PreOrder ==
    pc = "done" => (InPreOrder(git) /\ InPreOrder(svn) /\ InPreOrder(ignores))

-----------------------------------------------------------------------------
(* Properties of the cache. *)

\* The logged load found a file that was not outdated and could be stat'ed.
FreshLoad(l) ==
    /\ l.op = "load"
    /\ IsFile(l.file)
    /\ ~l.statfails
    /\ l.age <= l.maxage

HasVersion(file) == file.kind = "json" /\ "cache_version" \in DOMAIN file.obj

\* C13: update(x) with the current version followed by load(), the file
\* still within the maximum age, returns a record equal to x, whatever the
\* cache file held before the update.
C13_RoundTrip ==
    [][(/\ out.op = "update"
        /\ out.arg.cache_version = VInt(CACHE_VERSION)
        /\ FreshLoad(out')) =>
            out'.outcome = [ret |-> "data", data |-> out.arg]]_vars

\* A load returned the record of the scan layout written over another file.
C13_Witness ==
    /\ FreshLoad(out)
    /\ out.outcome.ret = "data"
    /\ out.outcome.data =
        CacheData(PathObj(<<"z">>),
                  [git |-> << PathObj(<<"z">>) >>, svn |-> << >>, ignores |-> << >>],
                  VInt(CACHE_VERSION))
    /\ out.age > 0

\* C14: load() on an existing file older than the maximum age returns
\* absent and raises nothing, whatever the file holds.
C14_OutdatedIsAbsent ==
    (/\ out.op = "load"
     /\ IsFile(out.file)
     /\ ~out.statfails
     /\ out.age > out.maxage) => out.outcome = [ret |-> "None"]

\* An outdated unparseable file was loaded.
C14_Witness ==
    /\ out.op = "load"
    /\ out.file = Garbage
    /\ ~out.statfails
    /\ out.age > out.maxage

\* C15: load() on an existing, not outdated file whose version is an integer
\* other than the current one raises RuntimeError and leaves the file as it
\* was.
C15_WrongVersionRaises ==
    (/\ FreshLoad(out)
     /\ out.file.kind = "json"
     /\ {"root", "candidates", "cache_version"} \subseteq DOMAIN out.file.obj
     /\ out.file.obj.cache_version.t = "int"
     /\ out.file.obj.cache_version.n # CACHE_VERSION) =>
        (out.outcome = [ret |-> "RuntimeError"] /\ cachefile = out.file)

\* A fresh file of version 999 was loaded.
C15_Witness ==
    /\ FreshLoad(out)
    /\ HasVersion(out.file)
    /\ out.file.obj.cache_version = VInt(999)

\* The version value is a number different from the current version.
NumericallyDifferent(version) ==
    \/ version.t = "int" /\ version.n # CACHE_VERSION
    \/ version.t = "float" /\ version.n # 10 * CACHE_VERSION

\* The version value is not a number.
NonNumeric(version) ==
    \/ version.t = "None"
    \/ version.t = "str" /\ version.s = "foo"

\* C16: load() on an existing, not outdated file raises RuntimeError when
\* the version field is missing, non-numeric, or numerically different from
\* the current version.
C16_SameCorruptionError ==
    (/\ FreshLoad(out)
     /\ out.file.kind = "json"
     /\ {"root", "candidates"} \subseteq DOMAIN out.file.obj
     /\ \/ ~HasVersion(out.file)
        \/ NonNumeric(out.file.obj.cache_version)
        \/ NumericallyDifferent(out.file.obj.cache_version)) =>
        out.outcome = [ret |-> "RuntimeError"]

\* C17: invalidate() removes the cache file, raises nothing when there is
\* none, leaves the state a second invalidate() would leave, and load()
\* returns absent until the next update().
C17_Invalidate ==
    /\ [](out.op = "invalidate" =>
            /\ out.outcome.ret = "ok"
            /\ cachefile = NoFile
            /\ InvalidateOutcome(cachefile) = [ret |-> "ok", file |-> cachefile])
    /\ []((out.op = "load" /\ out.file = NoFile) => out.outcome = [ret |-> "None"])
    /\ [][(cachefile = NoFile /\ cachefile' # NoFile) => out'.op = "update"]_vars

\* invalidate() was called with no cache file there.
C17_Witness ==
    /\ out.op = "invalidate"
    /\ out.file = NoFile

-----------------------------------------------------------------------------
(* Properties of setup_cache. *)

StrList(s) == [i \in 1..Len(s) |-> StrObj(s[i])]

\* C19: after a load() that returned absent, setup_cache has scanned the
\* base path and persisted root = base path, the scanned classification and
\* the current version; a following setup_cache on the unchanged tree that
\* finds the file within the maximum age returns what the scan returned.
C19_ScanPersistedAndReread ==
    /\ (spc = "done" /\ hist # << >> /\ hist[Len(hist)] = "scanned") =>
        /\ pc = "done"
        /\ calls # << >> /\ calls[1] = BasePath
        /\ result = FolderCandidates
        /\ cachefile =
            JsonFile([root |-> StrObj(BasePath),
                      candidates |-> [git |-> StrList(git), svn |-> StrList(svn),
                                      ignores |-> StrList(ignores)],
                      cache_version |-> VInt(CACHE_VERSION)])
    /\ (spc = "done" /\ hist = <<"scanned", "cached">>) =>
        result = FolderCandidates

\* A second setup_cache returned a cached classification with an ignored
\* directory and a working copy in it.
C19_Witness ==
    /\ spc = "done"
    /\ hist = <<"scanned", "cached">>
    /\ result.ignores # << >>
    /\ result.git # << >>
    /\ age > 0

-----------------------------------------------------------------------------
(* Properties of run_command and call_git. *)

\* The command of this call does not finish within the timeout.
TimesOut == proc.need > proc.timeout

\* C27: when the command has not finished within the timeout, run_command
\* kills the process and returns without raising and without waiting for
\* the command any longer than the timeout, and the status it returns is
\* negative.
C27_TimeoutKillsAndReturns ==
    /\ [](proc.state = "returned" /\ TimesOut
            => /\ proc.returncode < 0
               /\ proc.waited = proc.timeout
               /\ ~proc.alive)
    /\ [](TimesOut => proc.state # "raised")
    /\ (proc.state = "communicate" /\ TimesOut) ~> (proc.state = "returned")

C27_Witness ==
    /\ proc.state = "returned"
    /\ proc.cmd = StrObj("sleep 10")
    /\ TimesOut
    /\ proc.waited = proc.timeout
    /\ proc.returncode = 0 - SIGKILL

\* C28: call_git and the tests hand run_command the command line and the
\* directory in the order run_command takes them: the command line is run
\* inside the directory, and nothing is raised but for a missing program.
C28_ArgumentOrder ==
    proc.caller \in {"call_git", "test"} /\ proc.state \in {"returned", "raised"}
        => /\ proc.exc \in {"no", "RuntimeError", "FileNotFoundError"}
           /\ proc.exc = "no" => proc.argv = ShlexSplit(proc.cmd.v)

-----------------------------------------------------------------------------
(* Further properties of the cache. *)

\* The version value is a number.
IsNumber(version) == version.t \in {"int", "float"}

\* C29: load() returns a record only if the stored version numerically
\* equals the current version: a stored number different from it, 3.7
\* included, never yields a record.
C29_OnlyEqualVersionLoads ==
    (/\ out.op = "load"
     /\ out.outcome.ret = "data"
     /\ IsNumber(out.file.obj.cache_version)) =>
        ~NumericallyDifferent(out.file.obj.cache_version)

\* C30: load() on an existing file whose age can be read returns absent
\* exactly when the age is greater than the maximum age: a file as old as
\* the maximum is still read, and with the maximum 0 any positive age is
\* outdated.
C30_OutdatedIffOlder ==
    (/\ out.op = "load"
     /\ IsFile(out.file)
     /\ ~out.statfails) =>
        (out.outcome = [ret |-> "None"] <=> out.age > out.maxage)

\* A file exactly as old as the maximum age was read.
C30_Witness ==
    /\ out.op = "load"
    /\ IsFile(out.file)
    /\ ~out.statfails
    /\ out.age = out.maxage
    /\ out.age > 0
    /\ out.outcome.ret = "data"

-----------------------------------------------------------------------------
(* Properties of run(). *)

\* run() is at a folder of its classification that is no directory.
AtMissingFolder ==
    /\ \/ AtFolder("git", "top")
       \/ AtFolder("svn", "top")
    /\ ~IsDir(Folder)

\* The folders of the classification run() works on.
Classified ==
    {result.git[i].v : i \in 1..Len(result.git)} \cup
    {result.svn[i].v : i \in 1..Len(result.svn)}

\* The positions of the events of a folder.
EventsOf(folder) == {k \in 1..Len(rn.cmds) : rn.cmds[k].folder = folder}

\* The kinds of the events of a folder, in order.
KindsOf(folder) ==
    LET s == SelectSeq(rn.cmds, LAMBDA e : e.folder = folder)
    IN  [k \in 1..Len(s) |-> s[k].ev]

\* C21: when a folder of the classification is no directory any more, run()
\* deletes the cache file, raises nothing and goes on with the next folder;
\* the cache file stays absent to the end of the run, and the next run()
\* scans again.
C21_MissingFolderInvalidates ==
    /\ [][AtMissingFolder =>
            /\ cachefile' = NoFile
            /\ rn'.pos = rn.pos
            /\ rn'.i = rn.i + 1
            /\ rn'.exc = "no"]_vars
    /\ [](rn.stale => cachefile = NoFile)
    /\ [](rn.prevstale /\ spc \in {"done", "raised"} =>
            hist[Len(hist)] \in {"scanned", "PermissionError", "FileNotFoundError"})

\* A run on the cached classification met a missing folder, and the run
\* after it scanned and found the folders that are left.
C21_Witness ==
    /\ rn.prevstale
    /\ rn.pos = "returned"
    /\ hist = <<"cached", "scanned">>
    /\ result.git = << PathObj(<<"Build">>) >>
    /\ IsFile(cachefile)

\* C22: run() attempts every folder of the classification whatever happens
\* on the folders before it: it raises nothing, and when it ends every
\* folder that is a directory has a result entry.
C22_EveryFolderAttempted ==
    (spc = "done" /\ rn.pos \in {"returned", "raised"}) =>
        /\ rn.pos = "returned"
        /\ \A f \in Classified :
            IsDir(f) => f \in (DOMAIN rn.ok \cup DOMAIN rn.error)

\* C23: for each git folder the commands are issued in the order query,
\* pull, push: a pull only after a query that reports pull possible, a push
\* only right after the pull of the same folder returned 0, with pushing
\* enabled and reported possible; after a failed pull an error entry is
\* recorded and no push is issued for the folder.
C23_QueryPullPush ==
    \A k \in 1..Len(rn.cmds) :
        LET e == rn.cmds[k]
        IN  /\ e.ev = "pull" =>
                /\ k > 1
                /\ rn.cmds[k-1].ev = "query"
                /\ rn.cmds[k-1].folder = e.folder
                /\ rn.cmds[k-1].q.pull
            /\ e.ev = "push" =>
                /\ k > 3
                /\ rn.cmds[k-1] = Event(e.folder, "pulled", NoQuery, 0)
                /\ rn.cmds[k-2] = Event(e.folder, "pull", NoQuery, 0)
                /\ rn.cmds[k-3].ev = "query"
                /\ rn.cmds[k-3].folder = e.folder
                /\ rn.cmds[k-3].q.push
                /\ rn.push
            /\ (e.ev = "pulled" /\ e.rc # 0) =>
                /\ e.folder \in DOMAIN rn.error
                /\ rn.error[e.folder] = Msg("git pull error!", e.rc)
                /\ \A j \in EventsOf(e.folder) : rn.cmds[j].ev # "push"

\* One folder was pulled and pushed, and the pull of another timed out.
C23_Witness ==
    /\ rn.pos = "returned"
    /\ KindsOf(<<"+a">>) = <<"query", "pull", "pulled">>
    /\ <<"+a">> \in DOMAIN rn.error
    /\ rn.error[<<"+a">>] = Msg("git pull error!", 0 - SIGKILL)
    /\ KindsOf(<<"Build">>) = <<"query", "pull", "pulled", "push", "pushed">>

\* C24: run() issues no push for a git folder that carries the no-push
\* marker, whether the classification is from a scan or from the cache.
C24_NoPushWithMarker ==
    \A k \in 1..Len(rn.cmds) :
        rn.cmds[k].ev = "push" =>
            JoinPath(rn.cmds[k].folder, IGNORE_FILE_NOGITPUSH) \notin files

\* C25: run() issues no push for a git folder whose origin push URL holds
\* github.com; after a pull that returned 0 the entry of the folder is the
\* one of the pull, and no error is recorded for it.
C25_NoPushToGithub ==
    \A k \in 1..Len(rn.cmds) :
        LET e == rn.cmds[k]
        IN  (e.ev = "query" /\ e.q.url.v = URL_GITHUB) =>
                /\ \A j \in EventsOf(e.folder) : rn.cmds[j].ev # "push"
                /\ (k + 2 <= Len(rn.cmds) /\ rn.cmds[k+2].ev = "pulled"
                        /\ rn.cmds[k+2].rc = 0) =>
                    /\ rn.ok[e.folder] = Msg("git pull OK", 0)
                    /\ e.folder \notin DOMAIN rn.error

\* Pushing was enabled and possible, and the pull of a folder with a
\* github.com push URL returned 0.
C25_Witness ==
    /\ rn.pos = "returned"
    /\ rn.push
    /\ Len(rn.cmds) >= 3
    /\ rn.cmds[1].ev = "query"
    /\ rn.cmds[1].q.push
    /\ rn.cmds[1].q.url.v = URL_GITHUB
    /\ rn.cmds[3] = Event(rn.cmds[1].folder, "pulled", NoQuery, 0)
    /\ rn.cmds[1].folder \in DOMAIN rn.ok
    /\ rn.ok[rn.cmds[1].folder] = Msg("git pull OK", 0)

\* C26: the level of the summary is ERROR exactly when an error entry was
\* recorded, else WARNING exactly when a directory is in ignores, else INFO.
C26_Severity ==
    rn.pos = "returned" =>
        rn.level = IF DOMAIN rn.error # {} THEN "ERROR"
                   ELSE IF Len(result.ignores) > 0 THEN "WARNING"
                   ELSE "INFO"

\* Errors and ignored directories in one run: the level is ERROR.
C26_Witness ==
    /\ rn.pos = "returned"
    /\ DOMAIN rn.error # {}
    /\ Len(result.ignores) > 0
    /\ rn.level = "ERROR"

-----------------------------------------------------------------------------
(* Further properties of the scan and of setup_cache. *)

RECURSIVE SubtreeWork(_), TodoWork(_, _), StackWork(_)

\* The steps a call of the recursive scan on p can take at most.
SubtreeWork(p) ==
    IF ~IsDir(p) THEN 1 ELSE 1 + TodoWork(p, Sorted(ListDir(p)))

\* The steps the loop over the entries todo of root can take at most.
TodoWork(root, todo) ==
    IF todo = << >> THEN 1
    ELSE 1 + (IF IsDir(JoinPath(root, Head(todo)))
              THEN SubtreeWork(JoinPath(root, Head(todo))) ELSE 0)
           + TodoWork(root, Tail(todo))

StackWork(st) ==
    IF st = << >> THEN 0
    ELSE (IF Head(st).phase = "enter" THEN SubtreeWork(Head(st).root)
          ELSE TodoWork(Head(st).root, Head(st).todo))
         + StackWork(Tail(st))

\* The steps the scan at position p with the frames st can take at most
\* before it has returned.
WorkLeft(p, st) == (IF p = "scan" THEN 1 ELSE 0) + StackWork(st)

\* C32: on every tree the scan ends: a scan that has begun can take a
\* step, and every step leaves the tree as it is and lowers the number of
\* steps the scan can take at most; and the recursive scan is invoked at
\* most once on each directory.
C32_TerminatesOncePerDirectory ==
    /\ [](NoDuplicates(calls))
    /\ [](pc = "scan" => ENABLED ScanStep)
    /\ [][pc = "scan" =>
            /\ dirs' = dirs
            /\ WorkLeft(pc', stack') < WorkLeft(pc, stack)]_vars

\* A scan of a tree two levels deep has returned.
C32_Witness ==
    /\ pc = "done"
    /\ Len(calls) >= 3
    /\ \E i \in 1..Len(calls) : Len(calls[i]) = 2

\* C31: the cache file is written only by a fresh scan: the load of
\* setup_cache, with the use of the record it returned, leaves the content
\* and the age of the cache file as they were, and a step that changes the
\* content or lowers the age is the update that follows a scan.
C31_WrittenOnlyOnScan ==
    /\ [][(spc = "idle" /\ spc' # "idle") =>
            (cachefile' = cachefile /\ age' = age)]_vars
    /\ [][(cachefile' # cachefile \/ age' < age) =>
            (spc = "scanning" /\ hist' = Append(hist, "scanned"))]_vars

\* A second call of setup_cache has used the record of an aged cache file.
C31_Witness ==
    /\ spc = "done"
    /\ hist = <<"scanned", "cached">>
    /\ age > 0
    /\ out.op = "load"
    /\ out.outcome.ret = "data"

\* The cache file records a root that is not the requested base path.
ForeignRoot(file) ==
    /\ file.kind = "json"
    /\ "root" \in DOMAIN file.obj
    /\ file.obj.root # StrObj(BasePath)

\* The last operation on the cache was the load of an outdated file that
\* records another root.
LoadedOutdatedForeign ==
    /\ out.op = "load"
    /\ ForeignRoot(out.file)
    /\ out.age > out.maxage

\* C33: the root comparison, with its two ends, follows only the load of a
\* file that is not outdated; the load of an outdated file that records
\* another root begins a scan and raises nothing, the call raises only
\* when the scan does, and the update after the scan writes a record of
\* the scanned candidates whose root is the requested base path.
C33_OutdatedForeignRootRescans ==
    /\ [][(/\ spc = "idle"
            /\ hist' \in {Append(hist, "cached"),
                          Append(hist, "RuntimeWarning")}) =>
            age <= out'.maxage]_vars
    /\ [][(/\ spc = "idle"
            /\ spc' # "idle"
            /\ ForeignRoot(cachefile)
            /\ age > out'.maxage) =>
            (spc' = "scanning" /\ hist' = hist)]_vars
    /\ []((LoadedOutdatedForeign /\ spc = "raised") =>
            (Len(hist) > 0 /\ hist[Len(hist)] = "PermissionError"))
    /\ [][(LoadedOutdatedForeign /\ spc = "scanning" /\ spc' # "scanning") =>
            \/ spc' = "raised" /\ pc = "raised"
            \/ /\ spc' = "done"
               /\ hist' = Append(hist, "scanned")
               /\ age' = 0
               /\ cachefile' = JsonFile([root |-> StrObj(BasePath),
                       candidates |-> ConvertDict(FolderCandidates),
                       cache_version |-> VInt(CACHE_VERSION)])]_vars

\* An outdated file for another root has been overwritten after a scan
\* that found a repository.
C33_Witness ==
    /\ spc = "done"
    /\ hist = <<"scanned">>
    /\ out.op = "update"
    /\ ForeignRoot(out.file)
    /\ out.file.obj.cache_version = VInt(CACHE_VERSION)
    /\ out.age > 0
    /\ cachefile.kind = "json"
    /\ cachefile.obj.root = StrObj(BasePath)
    /\ Len(git) > 0

-----------------------------------------------------------------------------
(* Further properties of run(). *)

\* run_git is through with its i-th folder.
GitOver(i) ==
    \/ rn.pos \in {"svn", "returned"}
    \/ rn.pos \in {"git", "raised"} /\ i < rn.i

\* run_svn is through with its i-th folder.
SvnOver(i) ==
    \/ rn.pos = "returned"
    \/ rn.pos = "svn" /\ i < rn.i

\* The pull of the folder returned 0 and its push another status.
PulledNotPushed(f) ==
    /\ \E k \in 1..Len(rn.cmds) : rn.cmds[k] = Event(f, "pulled", NoQuery, 0)
    /\ \E k \in 1..Len(rn.cmds) :
        /\ rn.cmds[k].folder = f
        /\ rn.cmds[k].ev = "pushed"
        /\ rn.cmds[k].rc # 0

\* The result entries of a folder run() is through with.
EntriesFit(f) ==
    /\ IsDir(f) => f \in (DOMAIN rn.ok \cup DOMAIN rn.error)
    /\ ~IsDir(f) => f \notin (DOMAIN rn.ok \cup DOMAIN rn.error)
    /\ f \in (DOMAIN rn.ok \cap DOMAIN rn.error) <=> PulledNotPushed(f)

\* C34: every folder of the classification run_git or run_svn is through
\* with, so every one when run() has returned, has an entry in the ok or in
\* the error results when it is a directory and in neither when it is not,
\* and has an entry in both exactly when its pull returned 0 and its push
\* another status.
C34_ResultEntries ==
    spc = "done" =>
        /\ \A i \in 1..Len(result.git) :
                GitOver(i) => EntriesFit(result.git[i].v)
        /\ \A i \in 1..Len(result.svn) :
                SvnOver(i) => EntriesFit(result.svn[i].v)

\* run() has returned with a folder in both results, a folder in one, and a
\* folder that is no directory any more.
C34_Witness ==
    /\ spc = "done"
    /\ rn.pos = "returned"
    /\ \E f \in Classified : f \in (DOMAIN rn.ok \cap DOMAIN rn.error)
    /\ \E f \in Classified : f \in (DOMAIN rn.error \ DOMAIN rn.ok)
    /\ \E f \in Classified : ~IsDir(f)

\* C35: run() that returns returns 0 whatever the level of the summary
\* line; the step that chooses the level changes nothing but the level
\* and the position of run().
C35_ReturnsZero ==
    /\ [](rn.pos = "returned" => rn.ret = 0)
    /\ [][(rn.pos # "returned" /\ rn'.pos = "returned") =>
            /\ rn'.ret = 0
            /\ rn'.level \in {"ERROR", "WARNING", "INFO"}
            /\ rn' = [rn EXCEPT !.pos = "returned", !.level = rn'.level,
                                !.ret = 0]
            /\ UNCHANGED <<svars, cvars, proc>>]_vars

\* run() has returned after it recorded two errors.
C35_Witness ==
    /\ rn.pos = "returned"
    /\ rn.level = "ERROR"
    /\ Cardinality(DOMAIN rn.error) >= 2
    /\ rn.ret = 0

=============================================================================
